---- MODULE Spec2Model ----
(***************************************************************************)
(* The toy interpreter of src/code/interpreter/src/main.rs: Lexer, Value   *)
(* arithmetic, the recursive-descent parser, Scope, the evaluator and the  *)
(* eval runner.                                                            *)
(*                                                                         *)
(* Text is a sequence of one-character strings.  i64 / usize are modelled  *)
(* at a reduced width of IntBits bits (two's complement), so that overflow *)
(* and the `as usize` cast are reachable by the model checker.             *)
(***************************************************************************)
EXTENDS Integers, Sequences, FiniteSets, TLC

\* ------------------------------------------------------------------ bounds
\* Width of the modelled machine integer (i64 and usize in the source).
IntBits == 4
\* Longest source text handed to a Lexer in LexSpec.
MaxLen == 4
\* Most lines one run of eval reads.
MaxLines == 3
\* Longest string operand of OpSpec.
MaxStrLen == 2
\* Most calls of tokens() on one Lexer in LexSpec.
MaxCalls == 2
\* Longest token stream handed to Statement::parse (after `let x =`, if any).
MaxTokens == 4

\* ------------------------------------------------------- machine integers
RECURSIVE Pow2(_)
Pow2(k) == IF k = 0 THEN 1 ELSE 2 * Pow2(k - 1)

Modulus == Pow2(IntBits)
I64_MAX == Pow2(IntBits - 1) - 1
I64_MIN == -Pow2(IntBits - 1)
ISIZE_MAX == I64_MAX
I64 == I64_MIN..I64_MAX

\* Two's-complement wrap-around of a mathematical integer.
Wrap(n) == ((n - I64_MIN) % Modulus) + I64_MIN

\* Variant: the repetition count taken as the absolute value.
as_usize_Abs(a) == IF a >= 0 THEN a ELSE -a

\* `a as usize`: reinterpretation of the bits as an unsigned integer.
as_usize(a) == IF a >= 0 THEN a ELSE a + Modulus

\* ------------------------------------------------------------- characters
Digits == <<"0", "1", "2", "3", "4", "5", "6", "7", "8", "9">>
DigitChars == {Digits[i] : i \in 1..10}
DigitVal(c) == (CHOOSE i \in 1..10 : Digits[i] = c) - 1

Quote == "\""
Tab == "\t"
\* char::is_whitespace, restricted to the characters of the model.
IsWhitespace(c) == c \in {" ", Tab}

\* ------------------------------------------------ str::parse::<i64>, to_string
RECURSIVE DigitsValue(_)
DigitsValue(ds) ==
    IF ds = <<>> THEN 0
    ELSE 10 * DigitsValue(SubSeq(ds, 1, Len(ds) - 1)) + DigitVal(ds[Len(ds)])

AllDigits(ds) == \A i \in 1..Len(ds) : ds[i] \in DigitChars

\* i64::from_str: an optional sign, then one or more decimal digits, the
\* value within the range of the type.
parse_i64(text) ==
    LET signed == text # <<>> /\ text[1] \in {"+", "-"}
        ds     == IF signed THEN Tail(text) ELSE text
        n      == IF signed /\ text[1] = "-" THEN -DigitsValue(ds) ELSE DigitsValue(ds)
    IN  IF ds = <<>> \/ ~AllDigits(ds) THEN [ok |-> FALSE, n |-> 0]
        ELSE IF n < I64_MIN \/ n > I64_MAX THEN [ok |-> FALSE, n |-> 0]
        ELSE [ok |-> TRUE, n |-> n]

RECURSIVE NatToString(_)
NatToString(n) ==
    IF n < 10 THEN <<Digits[n + 1]>>
    ELSE NatToString(n \div 10) \o <<Digits[(n % 10) + 1]>>

\* i64::to_string
to_string(a) == IF a < 0 THEN <<"-">> \o NatToString(-a) ELSE NatToString(a)

\* ------------------------------------------------------------------ Token
TokNumber(n)     == [type |-> "Number", n |-> n, s |-> <<>>]
TokString(s)     == [type |-> "String", n |-> 0, s |-> s]
TokIdentifier(s) == [type |-> "Identifier", n |-> 0, s |-> s]
TokPlus          == [type |-> "Plus", n |-> 0, s |-> <<>>]
TokStar          == [type |-> "Star", n |-> 0, s |-> <<>>]
TokLet           == [type |-> "Let", n |-> 0, s |-> <<>>]
TokEquals        == [type |-> "Equals", n |-> 0, s |-> <<>>]

\* ------------------------------------------------------------------ Lexer
Lexer_new(source) == [source |-> source, tokens |-> <<>>, buffer |-> <<>>]

process_token(lx) ==
    IF lx.buffer = <<>> THEN lx
    ELSE LET number == parse_i64(lx.buffer)
             token  == IF number.ok THEN TokNumber(number.n)
                       ELSE IF lx.buffer = <<"l", "e", "t">> THEN TokLet
                       ELSE TokIdentifier(lx.buffer)
         IN  [lx EXCEPT !.tokens = Append(@, token), !.buffer = <<>>]

\* Position of the closing double quote of a string literal whose text starts
\* at position i, or one past the end of the source when it is unterminated.
RECURSIVE ClosingQuote(_, _)
ClosingQuote(source, i) ==
    IF i > Len(source) \/ source[i] = Quote THEN i ELSE ClosingQuote(source, i + 1)

\* Variant: a character of no recognized class is skipped instead of buffered.
scan_char_SkipUnknown(lx, i) ==
    LET c == lx.source[i] IN
    CASE c = " "         -> [lx |-> process_token(lx), next |-> i + 1]
      [] c \in DigitChars \cup {"x", "l", "e", "t"}
                         -> [lx |-> [lx EXCEPT !.buffer = Append(@, c)], next |-> i + 1]
      [] c = "+"         -> [lx |-> [lx EXCEPT !.tokens = Append(@, TokPlus)], next |-> i + 1]
      [] c = Quote       ->
            LET j == ClosingQuote(lx.source, i + 1)
                string == SubSeq(lx.source, i + 1, j - 1)
            IN  [lx |-> [lx EXCEPT !.tokens = Append(@, TokString(string))], next |-> j + 1]
      [] c = "*"         -> [lx |-> [lx EXCEPT !.tokens = Append(@, TokStar)], next |-> i + 1]
      [] c = "="         -> [lx |-> [lx EXCEPT !.tokens = Append(@, TokEquals)], next |-> i + 1]
      [] OTHER           -> [lx |-> lx, next |-> i + 1]

\* One iteration of the outer `while let Some(c) = chars.next()` loop, for the
\* character at position i: the lexer afterwards and the next position.
scan_char(lx, i) ==
    LET c == lx.source[i] IN
    CASE c = " "         -> [lx |-> process_token(lx), next |-> i + 1]
      [] c \in DigitChars -> [lx |-> [lx EXCEPT !.buffer = Append(@, c)], next |-> i + 1]
      [] c = "+"         -> [lx |-> [lx EXCEPT !.tokens = Append(@, TokPlus)], next |-> i + 1]
      [] c = Quote       ->
            LET j == ClosingQuote(lx.source, i + 1)
                string == SubSeq(lx.source, i + 1, j - 1)
            IN  [lx |-> [lx EXCEPT !.tokens = Append(@, TokString(string))], next |-> j + 1]
      [] c = "*"         -> [lx |-> [lx EXCEPT !.tokens = Append(@, TokStar)], next |-> i + 1]
      [] c = "="         -> [lx |-> [lx EXCEPT !.tokens = Append(@, TokEquals)], next |-> i + 1]
      [] OTHER           -> [lx |-> [lx EXCEPT !.buffer = Append(@, c)], next |-> i + 1]

RECURSIVE scan(_, _)
scan(lx, i) ==
    IF i > Len(lx.source) THEN lx
    ELSE LET step == scan_char(lx, i) IN scan(step.lx, step.next)

\* Variant: tokens() returns a copy of self.tokens and leaves the list in place.
Lexer_tokens_Clone(lx) ==
    LET end == process_token(scan(lx, 1))
    IN  [ret |-> end.tokens, lexer |-> end]

\* Lexer::tokens: the returned token list and the lexer it leaves behind.
Lexer_tokens(lx) ==
    LET end == process_token(scan(lx, 1))
    IN  [ret |-> end.tokens, lexer |-> [end EXCEPT !.tokens = <<>>]]

\* ------------------------------------------------------------------ Value
Number(n)  == [kind |-> "Number", n |-> n, s |-> <<>>]
String(s)  == [kind |-> "String", n |-> 0, s |-> s]

\* Option<Value>
None    == <<>>
Some(v) == <<v>>

\* Result of an operation that may panic.
Ok(v)       == [ok |-> TRUE, v |-> v, err |-> "", arg |-> <<>>]
Panic(m, a) == [ok |-> FALSE, v |-> Number(0), err |-> m, arg |-> a]

\* Variant: addition that wraps around in every build.
i64_add_Wrapping(a, b, bld) == Ok(Number(Wrap(a + b)))

\* `a + b` / `a * b` on i64: the build decides what an overflow does
\* (overflow checks on: panic; off: two's-complement wrap).
i64_add(a, b, bld) ==
    IF a + b \in I64 THEN Ok(Number(a + b))
    ELSE IF bld = "debug" THEN Panic("attempt to add with overflow", <<>>)
    ELSE Ok(Number(Wrap(a + b)))

i64_mul(a, b, bld) ==
    IF a * b \in I64 THEN Ok(Number(a * b))
    ELSE IF bld = "debug" THEN Panic("attempt to multiply with overflow", <<>>)
    ELSE Ok(Number(Wrap(a * b)))

RECURSIVE Copies(_, _)
Copies(s, n) == IF n = 0 THEN <<>> ELSE s \o Copies(s, n - 1)

\* str::repeat(n): n copies of s; the byte length of the result must fit
\* an allocation (at most isize::MAX bytes), else "capacity overflow".
str_repeat(s, n) ==
    IF n = 0 THEN Ok(String(<<>>))
    ELSE IF Len(s) * n > ISIZE_MAX THEN Panic("capacity overflow", <<>>)
    ELSE Ok(String(Copies(s, n)))

\* The message of the todo!() that ends Value::add and Value::mul: both say
\* '+' (the two operands, printed with {:?}, are left out).
Unsupported == "not yet implemented: syntax error, '+' between {:?} and {:?} not supported"

\* Variant: Number + String puts the string first.
Value_add_Swapped(self, other, bld) ==
    CASE self.kind = "Number" /\ other.kind = "Number" -> i64_add(self.n, other.n, bld)
      [] self.kind = "Number" /\ other.kind = "String" -> Ok(String(other.s \o to_string(self.n)))
      [] self.kind = "String" /\ other.kind = "Number" -> Ok(String(self.s \o to_string(other.n)))
      [] OTHER -> Panic(Unsupported, <<>>)

Value_add(self, other, bld) ==
    CASE self.kind = "Number" /\ other.kind = "Number" -> i64_add(self.n, other.n, bld)
      [] self.kind = "Number" /\ other.kind = "String" -> Ok(String(to_string(self.n) \o other.s))
      [] self.kind = "String" /\ other.kind = "Number" -> Ok(String(self.s \o to_string(other.n)))
      [] OTHER -> Panic(Unsupported, <<>>)

\* Variant: String * String yields the left string.
Value_mul_Strings(self, other, bld) ==
    CASE self.kind = "Number" /\ other.kind = "Number" -> i64_mul(self.n, other.n, bld)
      [] self.kind = "Number" /\ other.kind = "String" -> str_repeat(other.s, as_usize(self.n))
      [] self.kind = "String" /\ other.kind = "Number" -> str_repeat(self.s, as_usize(other.n))
      [] OTHER -> Ok(self)

Value_mul(self, other, bld) ==
    CASE self.kind = "Number" /\ other.kind = "Number" -> i64_mul(self.n, other.n, bld)
      [] self.kind = "Number" /\ other.kind = "String" -> str_repeat(other.s, as_usize(self.n))
      [] self.kind = "String" /\ other.kind = "Number" -> str_repeat(self.s, as_usize(other.n))
      [] OTHER -> Panic(Unsupported, <<>>)

\* -------------------------------------------------------------------- AST
TermValue(v)       == [kind |-> "Value", value |-> v, name |-> <<>>]
TermVariable(name) == [kind |-> "Variable", value |-> Number(0), name |-> name]
NoTerm             == [kind |-> "None", value |-> Number(0), name |-> <<>>]

ExprTerm(term)            == [kind |-> "Term", left |-> term, op |-> "", right |-> NoTerm]
ExprBinary(left, op, right) == [kind |-> "Binary", left |-> left, op |-> op, right |-> right]
NoExpr                    == [kind |-> "None", left |-> NoTerm, op |-> "", right |-> NoTerm]

StmtAssignment(name, val) == [kind |-> "Assignment", name |-> name, value |-> val]
StmtExpression(expr)        == [kind |-> "Expression", name |-> <<>>, value |-> expr]
NoStmt                      == [kind |-> "None", name |-> <<>>, value |-> NoExpr]

\* ----------------------------------------------------------------- Parser
\* A parse step either yields a node and the unconsumed rest of the stream,
\* or panics with a message about the token it got ("" = end of stream).
Parsed(node, rest) == [ok |-> TRUE, node |-> node, rest |-> rest, err |-> "", got |-> ""]
SyntaxError(m, got) == [ok |-> FALSE, node |-> NoTerm, rest |-> <<>>, err |-> m, got |-> got]

\* Variant: the reserved word `let` in a term position is a variable name.
Expression_term_LetAsName(stream) ==
    IF stream = <<>> THEN SyntaxError("expected a token", "")
    ELSE LET token == Head(stream) IN
         CASE token.type = "Number"     -> Parsed(TermValue(Number(token.n)), Tail(stream))
           [] token.type = "String"     -> Parsed(TermValue(String(token.s)), Tail(stream))
           [] token.type = "Identifier" -> Parsed(TermVariable(token.s), Tail(stream))
           [] token.type = "Let"        -> Parsed(TermVariable(<<"l", "e", "t">>), Tail(stream))
           [] OTHER -> SyntaxError("syntax error, expected term", token.type)

Expression_term(stream) ==
    IF stream = <<>> THEN SyntaxError("expected a token", "")
    ELSE LET token == Head(stream) IN
         CASE token.type = "Number"     -> Parsed(TermValue(Number(token.n)), Tail(stream))
           [] token.type = "String"     -> Parsed(TermValue(String(token.s)), Tail(stream))
           [] token.type = "Identifier" -> Parsed(TermVariable(token.s), Tail(stream))
           [] OTHER -> SyntaxError("syntax error, expected term", token.type)

\* Variant: a token after the first term that is no operator ends the
\* expression, which is then the lone term.
Expression_parse_LoneTerm(stream) ==
    LET left == Expression_term(stream) IN
    IF ~left.ok THEN left
    ELSE IF left.rest = <<>> THEN Parsed(ExprTerm(left.node), <<>>)
    ELSE LET operation == Head(left.rest) IN
         IF operation.type \notin {"Plus", "Star"}
         THEN Parsed(ExprTerm(left.node), left.rest)
         ELSE LET op    == IF operation.type = "Plus" THEN "Addition" ELSE "Multiplication"
                  right == Expression_term(Tail(left.rest))
              IN  IF ~right.ok THEN right
                  ELSE Parsed(ExprBinary(left.node, op, right.node), right.rest)

\* Variant: tokens left after the right operand are a syntax error.
Expression_parse_RejectTrailing(stream) ==
    LET left == Expression_term(stream) IN
    IF ~left.ok THEN left
    ELSE IF left.rest = <<>> THEN Parsed(ExprTerm(left.node), <<>>)
    ELSE LET operation == Head(left.rest) IN
         IF operation.type \notin {"Plus", "Star"}
         THEN SyntaxError("syntax error, expected operation", operation.type)
         ELSE LET op    == IF operation.type = "Plus" THEN "Addition" ELSE "Multiplication"
                  right == Expression_term(Tail(left.rest))
              IN  IF ~right.ok THEN right
                  ELSE IF right.rest # <<>>
                  THEN SyntaxError("syntax error, unexpected token", Head(right.rest).type)
                  ELSE Parsed(ExprBinary(left.node, op, right.node), right.rest)

Expression_parse(stream) ==
    LET left == Expression_term(stream) IN
    IF ~left.ok THEN left
    ELSE IF left.rest = <<>> THEN Parsed(ExprTerm(left.node), <<>>)
    ELSE LET operation == Head(left.rest) IN
         IF operation.type \notin {"Plus", "Star"}
         THEN SyntaxError("syntax error, expected operation", operation.type)
         ELSE LET op    == IF operation.type = "Plus" THEN "Addition" ELSE "Multiplication"
                  right == Expression_term(Tail(left.rest))
              IN  IF ~right.ok THEN right
                  ELSE Parsed(ExprBinary(left.node, op, right.node), right.rest)

Statement_assignment(stream) ==
    LET afterLet == Tail(stream) IN
    IF afterLet = <<>> THEN SyntaxError("syntax error, expected identifier", "")
    ELSE IF Head(afterLet).type # "Identifier"
    THEN SyntaxError("syntax error, expected identifier", Head(afterLet).type)
    ELSE LET name      == Head(afterLet).s
             afterName == Tail(afterLet)
         IN  IF afterName = <<>> THEN SyntaxError("syntax error, expected '='", "")
             ELSE IF Head(afterName).type # "Equals"
             THEN SyntaxError("syntax error, expected '='", Head(afterName).type)
             ELSE LET val == Expression_parse(Tail(afterName)) IN
                  IF ~val.ok THEN val
                  ELSE Parsed(StmtAssignment(name, val.node), val.rest)

Statement_parse(stream) ==
    IF stream = <<>> THEN SyntaxError("empty token stream", "")
    ELSE IF Head(stream).type = "Let" THEN Statement_assignment(stream)
    ELSE LET expr == Expression_parse(stream) IN
         IF ~expr.ok THEN expr
         ELSE Parsed(StmtExpression(expr.node), expr.rest)

\* ------------------------------------------------------------------ Scope
\* HashMap<String, Value>: a function whose domain is the set of bound names.
Scope_new == [name \in {} |-> Number(0)]

Scope_get(sc, name) == IF name \in DOMAIN sc THEN Some(sc[name]) ELSE None

\* Variant: an existing binding is kept (first write wins).
Scope_set_KeepFirst(sc, name, val) ==
    [n \in (DOMAIN sc) \cup {name} |-> IF n \in DOMAIN sc THEN sc[n] ELSE val]

Scope_set(sc, name, val) ==
    [n \in (DOMAIN sc) \cup {name} |-> IF n = name THEN val ELSE sc[n]]

\* -------------------------------------------------------------- Evaluator
\* Variant: an unbound variable evaluates to a default Number(0).
Term_evaluate_Default(term, sc) ==
    IF term.kind = "Value" THEN Ok(term.value)
    ELSE LET found == Scope_get(sc, term.name) IN
         IF found # None THEN Ok(found[1]) ELSE Ok(Number(0))

Term_evaluate(term, sc) ==
    IF term.kind = "Value" THEN Ok(term.value)
    ELSE LET found == Scope_get(sc, term.name) IN
         IF found # None THEN Ok(found[1])
         ELSE Panic("runtime error: variable not found", term.name)

Expression_evaluate(expr, sc, bld) ==
    IF expr.kind = "Term" THEN Term_evaluate(expr.left, sc)
    ELSE LET left == Term_evaluate(expr.left, sc) IN
         IF ~left.ok THEN left
         ELSE LET right == Term_evaluate(expr.right, sc) IN
              IF ~right.ok THEN right
              ELSE IF expr.op = "Addition" THEN Value_add(left.v, right.v, bld)
              ELSE Value_mul(left.v, right.v, bld)

\* Variant: an assignment resets the name to 0 first and evaluates the
\* expression against the scope that already holds the new binding.
Statement_evaluate_WriteBeforeRead(stmt, sc, bld) ==
    LET during == IF stmt.kind = "Assignment" THEN Scope_set(sc, stmt.name, Number(0)) ELSE sc
        val    == Expression_evaluate(stmt.value, during, bld)
    IN  IF ~val.ok THEN [ok |-> FALSE, ret |-> None, scope |-> sc, err |-> val.err, arg |-> val.arg]
        ELSE IF stmt.kind = "Assignment"
        THEN [ok |-> TRUE, ret |-> None, scope |-> Scope_set(sc, stmt.name, val.v), err |-> "", arg |-> <<>>]
        ELSE [ok |-> TRUE, ret |-> Some(val.v), scope |-> sc, err |-> "", arg |-> <<>>]

\* Variant: an assignment creates the binding before it evaluates the
\* expression, so a failing right-hand side leaves the name bound to 0.
Statement_evaluate_SetFirst(stmt, sc, bld) ==
    LET val == Expression_evaluate(stmt.value, sc, bld) IN
    IF stmt.kind = "Assignment"
    THEN IF ~val.ok
         THEN [ok |-> FALSE, ret |-> None, scope |-> Scope_set(sc, stmt.name, Number(0)),
               err |-> val.err, arg |-> val.arg]
         ELSE [ok |-> TRUE, ret |-> None, scope |-> Scope_set(sc, stmt.name, val.v),
               err |-> "", arg |-> <<>>]
    ELSE IF ~val.ok
    THEN [ok |-> FALSE, ret |-> None, scope |-> sc, err |-> val.err, arg |-> val.arg]
    ELSE [ok |-> TRUE, ret |-> Some(val.v), scope |-> sc, err |-> "", arg |-> <<>>]

\* Variant: an assignment returns the assigned value, like an expression.
Statement_evaluate_AssignReturns(stmt, sc, bld) ==
    LET val == Expression_evaluate(stmt.value, sc, bld) IN
    IF ~val.ok THEN [ok |-> FALSE, ret |-> None, scope |-> sc, err |-> val.err, arg |-> val.arg]
    ELSE IF stmt.kind = "Assignment"
    THEN [ok |-> TRUE, ret |-> Some(val.v), scope |-> Scope_set(sc, stmt.name, val.v), err |-> "", arg |-> <<>>]
    ELSE [ok |-> TRUE, ret |-> Some(val.v), scope |-> sc, err |-> "", arg |-> <<>>]

\* Statement::evaluate: the returned Option<Value> and the scope afterwards,
\* or the panic of the expression.
Statement_evaluate(stmt, sc, bld) ==
    LET val == Expression_evaluate(stmt.value, sc, bld) IN
    IF ~val.ok THEN [ok |-> FALSE, ret |-> None, scope |-> sc, err |-> val.err, arg |-> val.arg]
    ELSE IF stmt.kind = "Assignment"
    THEN [ok |-> TRUE, ret |-> None, scope |-> Scope_set(sc, stmt.name, val.v), err |-> "", arg |-> <<>>]
    ELSE [ok |-> TRUE, ret |-> Some(val.v), scope |-> sc, err |-> "", arg |-> <<>>]

\* --------------------------------------------------------- str::trim
RECURSIVE trim_start(_)
trim_start(text) ==
    IF text # <<>> /\ IsWhitespace(Head(text)) THEN trim_start(Tail(text)) ELSE text

RECURSIVE trim_end(_)
trim_end(text) ==
    IF text # <<>> /\ IsWhitespace(text[Len(text)])
    THEN trim_end(SubSeq(text, 1, Len(text) - 1)) ELSE text

trim(text) == trim_end(trim_start(text))

\* ------------------------------------------------- source lines of a run
RECURSIVE Join(_)
Join(words) ==
    IF words = <<>> THEN <<>>
    ELSE IF Len(words) = 1 THEN words[1]
    ELSE words[1] \o <<" ">> \o Join(Tail(words))

W_let == <<"l", "e", "t">>
W_x   == <<"x">>
W_y   == <<"y">>
W_3   == <<"3">>
W_m1  == <<"-", "1">>
W_a   == <<Quote, "a", Quote>>
W_eq  == <<"=">>
W_add == <<"+">>
W_mul == <<"*">>

RunNames == {W_x, W_y}
RunTerms == {W_3, W_x, W_a}
LetNames == {W_x}
RunOps   == {W_add, W_mul}

ExprWords == {<<t>> : t \in RunTerms} \cup
             {<<l, o, r>> : l \in RunTerms, o \in RunOps, r \in RunTerms}
LetWords  == {<<W_let, n, W_eq>> \o e : n \in LetNames, e \in ExprWords}

\* Lines outside the two regular shapes: blank and padded lines, the second
\* variable and a negative literal, tokens written without spaces, malformed
\* statements, trailing tokens.
SpecialLines == {
    <<>>, <<" ", " ">>, <<Tab>>,
    <<" ", "x", " ">>, <<Tab, "3", " ">>,
    W_y, Join(<<W_x, W_add, W_y>>), Join(<<W_y, W_mul, W_x>>),
    Join(<<W_let, W_y, W_eq, W_m1>>), Join(<<W_let, W_x, W_eq, W_y, W_add, W_3>>),
    Join(<<W_let, W_y, W_eq, W_x>>),
    <<"3", "+", "3">>, <<"x", "=", "3">>,
    Join(<<W_x, W_eq, W_3>>),
    Join(<<W_let, W_x>>), Join(<<W_let, W_eq, W_3>>), Join(<<W_let, W_x, W_3>>),
    Join(<<W_let, W_let, W_eq, W_3>>), Join(<<W_let, W_x, W_eq>>),
    Join(<<W_3, W_add>>), Join(<<W_add, W_3>>), Join(<<W_3, W_3>>), Join(<<W_x, W_a>>),
    Join(<<W_3, W_add, W_3, W_add, W_3>>), Join(<<W_3, W_add, W_3, W_eq>>),
    Join(<<W_3, <<"-">>, W_m1>>), <<"@">>, <<"3", Tab, "3">>,
    <<Quote, "a">>, <<Quote, Quote>> }

RunLines == {Join(w) : w \in ExprWords \cup LetWords} \cup SpecialLines

\* ------------------------------------------------------------------- state
VARIABLES
    build,      \* "debug" (overflow checks) or "release" (wrapping arithmetic)
    pc,         \* eval: "loop" (between two lines), "returned", "panicked"
    lineNo,     \* lines of the source read so far
    statement,  \* the Statement parsed from the last line read
    scope,      \* Scope.variables
    value,      \* eval's local `value`: Option<Value>
    error,      \* the panic that ended the run
    lastKind,   \* history: kind of the latest statement evaluated
    lastExpr,   \* history: Value the latest expression statement produced
    written,    \* history: Value the latest `let` of each name computed
    lexer,      \* LexSpec: a Lexer object
    lexOut,     \* LexSpec: what each call of tokens() returned
    opArgs,     \* OpSpec: operator and the two operands
    opRes,      \* OpSpec: the result of applying it
    parseIn,    \* ParseSpec: the token stream handed to Statement::parse
    parseOut    \* ParseSpec: what Statement::parse made of it

runVars == <<pc, lineNo, statement, scope, value, error, lastKind, lastExpr, written>>
lexVars == <<lexer, lexOut>>
opVars  == <<opArgs, opRes>>
parseVars == <<parseIn, parseOut>>
vars    == <<build, runVars, lexVars, opVars, parseVars>>

NoError == [kind |-> "none", msg |-> "", name |-> <<>>, got |-> ""]
Builds  == {"debug", "release"}

NoLexer == Lexer_new(<<>>)
NoArgs  == [op |-> "", left |-> Number(0), right |-> Number(0)]
NotApplied == Panic("not applied", <<>>)
NotParsed == SyntaxError("not parsed", "")

\* ------------------------------------------------------------------- eval
Init ==
    /\ build \in Builds
    /\ pc = "loop"
    /\ lineNo = 0
    /\ statement = NoStmt
    /\ scope = Scope_new
    /\ value = None
    /\ error = NoError
    /\ lastKind = "None"
    /\ lastExpr = None
    /\ written = [n \in RunNames |-> None]
    /\ lexer = NoLexer /\ lexOut = <<>>
    /\ opArgs = NoArgs /\ opRes = NotApplied
    /\ parseIn = <<>> /\ parseOut = NotParsed

\* Variant: the loop goes on with the next line after a panic.
AtLoop_AfterPanic == pc \in {"loop", "panicked"} /\ lineNo < MaxLines

\* The loop of eval is about to take the next line of source.lines().
AtLoop == pc = "loop" /\ lineNo < MaxLines

\* let mut lexer = Lexer::new(line); let tokens = lexer.tokens();
LineTokens(raw) == Lexer_tokens(Lexer_new(trim(raw))).ret

\* let line = line.trim(); line.is_empty(): the lines that are skipped.
BlankLines == {raw \in RunLines : trim(raw) = <<>>}

\* The tokens of each line of RunLines, lexed once.
LexedLines == [raw \in RunLines |-> LineTokens(raw)]

\* Lexing and parsing depend on the line alone: each line of RunLines is
\* lexed and parsed once, by Lexer::tokens and Statement::parse.
ParsedLines == [raw \in RunLines |-> Statement_parse(LexedLines[raw])]

\* Statement::parse(&mut tokens.into_iter().peekable())
LineParsed(raw) == ParsedLines[raw]

\* The line is empty after trim(): `continue`.
SkipBlank(raw) ==
    /\ AtLoop
    /\ raw \in BlankLines
    /\ lineNo' = lineNo + 1
    /\ statement' = NoStmt
    /\ UNCHANGED <<build, pc, scope, value, error, lastKind, lastExpr, written, lexVars, opVars, parseVars>>

\* The line is lexed, and Statement::parse panics.
ParsePanics(raw) ==
    /\ AtLoop
    /\ raw \notin BlankLines
    /\ ~LineParsed(raw).ok
    /\ lineNo' = lineNo + 1
    /\ statement' = NoStmt
    /\ pc' = "panicked"
    /\ error' = [kind |-> "syntax", msg |-> LineParsed(raw).err, name |-> <<>>,
                 got |-> LineParsed(raw).got]
    /\ UNCHANGED <<build, scope, value, lastKind, lastExpr, written, lexVars, opVars, parseVars>>

\* The line is lexed and parsed, and statement.evaluate(&mut scope) panics.
EvaluatePanics(raw) ==
    /\ AtLoop
    /\ raw \notin BlankLines
    /\ LineParsed(raw).ok
    /\ LET res == Statement_evaluate(LineParsed(raw).node, scope, build) IN
       /\ ~res.ok
       /\ error' = [kind |-> "runtime", msg |-> res.err, name |-> res.arg, got |-> ""]
       /\ scope' = res.scope
    /\ lineNo' = lineNo + 1
    /\ statement' = LineParsed(raw).node
    /\ pc' = "panicked"
    /\ UNCHANGED <<build, value, lastKind, lastExpr, written, lexVars, opVars, parseVars>>

\* The line is lexed, parsed and evaluated: value = statement.evaluate(&mut scope).
EvaluateLine(raw) ==
    /\ AtLoop
    /\ raw \notin BlankLines
    /\ LineParsed(raw).ok
    /\ LET stmt == LineParsed(raw).node
           res  == Statement_evaluate(stmt, scope, build)
           v    == Expression_evaluate(stmt.value, scope, build).v
       IN  /\ res.ok
           /\ value' = res.ret
           /\ scope' = res.scope
           /\ lastKind' = stmt.kind
           /\ lastExpr' = IF stmt.kind = "Expression" THEN Some(v) ELSE lastExpr
           /\ written' = IF stmt.kind = "Assignment" /\ stmt.name \in RunNames
                         THEN [written EXCEPT ![stmt.name] = Some(v)] ELSE written
           /\ statement' = stmt
    /\ lineNo' = lineNo + 1
    /\ UNCHANGED <<build, pc, error, lexVars, opVars, parseVars>>

\* The source has no more lines: eval returns `value`.
Return ==
    /\ pc = "loop"
    /\ pc' = "returned"
    /\ UNCHANGED <<build, lineNo, statement, scope, value, error, lastKind, lastExpr, written,
                   lexVars, opVars, parseVars>>

Next ==
    \/ \E raw \in RunLines : SkipBlank(raw)
    \/ \E raw \in RunLines : ParsePanics(raw)
    \/ \E raw \in RunLines : EvaluatePanics(raw)
    \/ \E raw \in RunLines : EvaluateLine(raw)
    \/ Return

Spec == Init /\ [][Next]_vars

\* ------------------------------------------------------------- LexSpec
\* One Lexer over every short source text; tokens() is called on it up to
\* MaxCalls times.
LexAlphabet == {" ", "1", "+", "=", Quote, "x", "-", "@"}
LexSources  == UNION {[1..n -> LexAlphabet] : n \in 0..MaxLen}

RunIdle ==
    /\ pc = "idle" /\ lineNo = 0 /\ statement = NoStmt /\ scope = Scope_new
    /\ value = None /\ error = NoError
    /\ lastKind = "None" /\ lastExpr = None /\ written = [n \in RunNames |-> None]

LexInit ==
    /\ build = "debug"
    /\ RunIdle
    /\ \E source \in LexSources : lexer = Lexer_new(source)
    /\ lexOut = <<>>
    /\ opArgs = NoArgs /\ opRes = NotApplied
    /\ parseIn = <<>> /\ parseOut = NotParsed

\* lexer.tokens()
CallTokens ==
    /\ Len(lexOut) < MaxCalls
    /\ lexer' = Lexer_tokens(lexer).lexer
    /\ lexOut' = Append(lexOut, Lexer_tokens(lexer).ret)
    /\ UNCHANGED <<build, runVars, opVars, parseVars>>

LexNext == CallTokens

LexSpec == LexInit /\ [][LexNext]_vars

\* -------------------------------------------------------------- OpSpec
\* `left + right` and `left * right` over every pair of small Values.
RECURSIVE SeqsUpTo(_, _)
SeqsUpTo(alphabet, n) ==
    IF n = 0 THEN {<<>>}
    ELSE LET shorter == SeqsUpTo(alphabet, n - 1)
         IN  shorter \cup {Append(s, c) : s \in shorter, c \in alphabet}

OpStrings == SeqsUpTo({"a", "1"}, MaxStrLen)
OpValues  == {Number(n) : n \in I64} \cup {String(s) : s \in OpStrings}

OpInit ==
    /\ build \in Builds
    /\ RunIdle
    /\ lexer = NoLexer /\ lexOut = <<>>
    /\ opArgs \in [op : {"Addition", "Multiplication"}, left : OpValues, right : OpValues]
    /\ opRes = NotApplied
    /\ parseIn = <<>> /\ parseOut = NotParsed

\* Operation::Addition => left + right
ApplyAdd ==
    /\ opArgs.op = "Addition" /\ opRes = NotApplied
    /\ opRes' = Value_add(opArgs.left, opArgs.right, build)
    /\ UNCHANGED <<build, runVars, lexVars, opArgs, parseVars>>

\* Operation::Multiplication => left * right
ApplyMul ==
    /\ opArgs.op = "Multiplication" /\ opRes = NotApplied
    /\ opRes' = Value_mul(opArgs.left, opArgs.right, build)
    /\ UNCHANGED <<build, runVars, lexVars, opArgs, parseVars>>

OpNext == ApplyAdd \/ ApplyMul

OpSpec == OpInit /\ [][OpNext]_vars

\* ------------------------------------------------------------ ParseSpec
\* Statement::parse over every short token stream, plain and behind the
\* prefix `let x =`. eval hands it the tokens of a non-empty trimmed line,
\* which are never empty.
ParseTokens == {TokNumber(3), TokString(<<"a">>), TokIdentifier(W_x),
                TokPlus, TokStar, TokLet, TokEquals}
LetPrefix == <<TokLet, TokIdentifier(W_x), TokEquals>>
ShortStreams == UNION {[1..n -> ParseTokens] : n \in 1..MaxTokens}
ParseStreams == ShortStreams \cup {LetPrefix \o s : s \in ShortStreams}

ParseInit ==
    /\ build = "debug"
    /\ RunIdle
    /\ lexer = NoLexer /\ lexOut = <<>>
    /\ opArgs = NoArgs /\ opRes = NotApplied
    /\ parseIn \in ParseStreams
    /\ parseOut = NotParsed

\* Statement::parse(&mut tokens.into_iter().peekable())
ParseStatement ==
    /\ parseOut = NotParsed
    /\ parseOut' = Statement_parse(parseIn)
    /\ UNCHANGED <<build, runVars, lexVars, opVars, parseIn>>

ParseNext == ParseStatement

ParseSpec == ParseInit /\ [][ParseNext]_vars

\* ======================================================== properties: eval
\* The run is between two lines or has returned.
Returned == pc = "returned"

RefX == StmtExpression(ExprTerm(TermVariable(W_x)))

\* C2: every name resolves to the Value its most recent `let` computed (and
\* to nothing if it was never assigned), in one flat scope; a line that is
\* just the name yields that Value.
C2_LastWriteWins ==
    /\ DOMAIN scope \subseteq RunNames
    /\ \A n \in RunNames :
         /\ Scope_get(scope, n) = written[n]
         /\ (pc \in {"loop", "returned"}
             /\ statement = StmtExpression(ExprTerm(TermVariable(n)))) => value = written[n]

\* x was assigned "aaa" and then x + 3 (no single line computes "aaa3"), and a
\* later line `x` gave "aaa3".
C2_Witness ==
    /\ pc = "loop" /\ statement = RefX
    /\ value = Some(String(<<"a", "a", "a", "3">>))

\* C5: no step of the run starts after an error was raised, and the step that
\* raises the first error ends the run without writing the Scope or `value`.
C5_FirstErrorEndsRun ==
    [][/\ error = NoError
       /\ (error' # NoError => pc' = "panicked" /\ scope' = scope /\ value' = value)]_vars

\* A run that had bound a variable and could have read more lines has panicked.
C5_Witness == pc = "panicked" /\ lineNo < MaxLines /\ scope # Scope_new /\ error # NoError

\* This step parsed a statement from a line and evaluated it.
StepEvaluates == lineNo' = lineNo + 1 /\ statement' # NoStmt

UnboundVariable(term, sc) == term.kind = "Variable" /\ term.name \notin DOMAIN sc

FailsNaming(name) ==
    /\ pc' = "panicked"
    /\ error' = [kind |-> "runtime", msg |-> "runtime error: variable not found",
                 name |-> name, got |-> ""]
    /\ value' = value /\ scope' = scope

\* C6: evaluating a statement whose first evaluated unbound variable term is
\* the lone term, the left operand, or (the left one being a literal or bound)
\* the right operand, of an expression statement or of an assignment's
\* right-hand side, panics with "variable not found" naming that variable.
C6_UnboundVariableFails ==
    [][StepEvaluates =>
        /\ UnboundVariable(statement'.value.left, scope)
              => FailsNaming(statement'.value.left.name)
        /\ (/\ statement'.value.kind = "Binary"
            /\ ~UnboundVariable(statement'.value.left, scope)
            /\ UnboundVariable(statement'.value.right, scope))
              => FailsNaming(statement'.value.right.name)]_vars

\* An assignment `let NAME = literal OP variable` panicked naming the variable.
C6_Witness ==
    /\ pc = "panicked" /\ error.msg = "runtime error: variable not found"
    /\ statement.kind = "Assignment" /\ statement.value.kind = "Binary"
    /\ statement.value.left.kind = "Value"
    /\ statement.value.right.kind = "Variable"
    /\ error.name = statement.value.right.name

IsString(term, sc) == Term_evaluate(term, sc).ok /\ Term_evaluate(term, sc).v.kind = "String"

\* C8: evaluating a binary expression whose two operands evaluate to Strings
\* (literals or variables bound to strings) panics, for + and for *, and
\* produces no Value.
C8_StringWithStringFails ==
    [][(/\ StepEvaluates
        /\ statement'.value.kind = "Binary"
        /\ IsString(statement'.value.left, scope)
        /\ IsString(statement'.value.right, scope))
       => /\ pc' = "panicked"
          /\ error'.kind = "runtime"
          /\ error'.msg = Unsupported
          /\ value' = value /\ scope' = scope]_vars

\* x is bound to a string and `x * x` panicked.
C8_Witness ==
    /\ pc = "panicked" /\ error.msg = Unsupported
    /\ statement.value.op = "Multiplication"
    /\ statement.value.left = TermVariable(W_x) /\ statement.value.right = TermVariable(W_x)
    /\ Scope_get(scope, W_x) # None /\ scope[W_x].kind = "String"

\* ================================================= properties: operators
Applied(op) == opArgs.op = op /\ opRes # NotApplied

\* One operand is a Number and the other a String.
Mixed == opArgs.left.kind # opArgs.right.kind
NumberOperand == IF opArgs.left.kind = "Number" THEN opArgs.left.n ELSE opArgs.right.n
StringOperand == IF opArgs.left.kind = "String" THEN opArgs.left.s ELSE opArgs.right.s

Abs(a) == IF a < 0 THEN -a ELSE a

\* text is the canonical decimal numeral of a: an optional "-", then digits
\* without a leading zero, reading back as a.
IsDecimalOf(text, a) ==
    /\ text # <<>>
    /\ parse_i64(text) = [ok |-> TRUE, n |-> a]
    /\ text[1] # "+"
    /\ (a >= 0) = (text[1] # "-")
    /\ LET ds == IF text[1] = "-" THEN Tail(text) ELSE text
       IN  Len(ds) > 1 => ds[1] # "0"

\* C7: Number(a) + String(s) is the decimal text of a followed by s, and
\* String(s) + Number(a) is s followed by the decimal text of a.
C7_MixedAdditionKeepsOrder ==
    (Applied("Addition") /\ Mixed) =>
        LET a   == NumberOperand
            s   == StringOperand
            res == opRes.v.s
            k   == Len(res) - Len(s)
        IN  /\ opRes.ok /\ opRes.v.kind = "String"
            /\ k >= 1
            /\ IF opArgs.left.kind = "Number"
               THEN IsDecimalOf(SubSeq(res, 1, k), a) /\ SubSeq(res, k + 1, Len(res)) = s
               ELSE SubSeq(res, 1, Len(s)) = s /\ IsDecimalOf(SubSeq(res, Len(s) + 1, Len(res)), a)

\* A non-empty string plus a negative number gave the string, "-" and digits.
C7_Witness ==
    /\ Applied("Addition") /\ opRes.ok
    /\ opArgs.left.kind = "String" /\ opArgs.left.s # <<>>
    /\ opArgs.right.kind = "Number" /\ opArgs.right.n < 0
    /\ opRes.v.s[Len(opArgs.left.s) + 1] = "-"

\* text is s written n times.
IsRepetition(text, s, n) ==
    /\ Len(text) = n * Len(s)
    /\ \A i \in 1..Len(text) : text[i] = s[((i - 1) % Len(s)) + 1]

\* C9 (as claimed): Number(a) * String(s) and String(s) * Number(a) are s
\* repeated |a| times (for every result that fits an allocation).
C9_RepeatsAbsoluteCount ==
    (Applied("Multiplication") /\ Mixed /\ Len(StringOperand) * Abs(NumberOperand) <= ISIZE_MAX)
        => /\ opRes.ok /\ opRes.v.kind = "String"
           /\ IsRepetition(opRes.v.s, StringOperand, Abs(NumberOperand))

\* C9 (amended): in both operand orders, for a >= 0 the result is s repeated a
\* times (a = 0: the empty string) when its length fits an allocation; a
\* negative a is cast to the unsigned count a + 2^w: with the empty s the
\* result is the empty string, with any other s the evaluation panics with
\* "capacity overflow", as does every repetition too long to allocate.
C9_RepeatsUnsignedCount ==
    (Applied("Multiplication") /\ Mixed) =>
        LET a == NumberOperand
            s == StringOperand
        IN  IF (a >= 0 /\ Len(s) * a <= ISIZE_MAX) \/ s = <<>>
            THEN /\ opRes.ok /\ opRes.v.kind = "String"
                 /\ IsRepetition(opRes.v.s, s, IF a >= 0 THEN a ELSE 0)
            ELSE ~opRes.ok /\ opRes.err = "capacity overflow"

\* A negative number times a non-empty string panicked, and so did the other order.
C9_Witness ==
    /\ Applied("Multiplication") /\ Mixed
    /\ NumberOperand < 0 /\ StringOperand # <<>>
    /\ ~opRes.ok
    /\ ~Value_mul(opArgs.right, opArgs.left, build).ok

BothNumbers == opArgs.left.kind = "Number" /\ opArgs.right.kind = "Number"

\* The mathematical sum or product of the two Number operands.
Exact == IF opArgs.op = "Addition" THEN opArgs.left.n + opArgs.right.n
         ELSE opArgs.left.n * opArgs.right.n

\* C10 (as claimed): Number(a) + Number(b) is Number(a+b) and Number(a) *
\* Number(b) is Number(a*b), also when the result is outside the integer range.
C10_ExactArithmetic ==
    (opRes # NotApplied /\ BothNumbers) => opRes.ok /\ opRes.v = Number(Exact)

\* C10 (amended): when the sum or product is within the signed range the
\* result is that Number; when it is not, a build with overflow checks panics
\* ("attempt to add/multiply with overflow") and a build without them yields
\* the Number in range that is congruent to it modulo 2^w.
C10_ArithmeticWithinRange ==
    (opRes # NotApplied /\ BothNumbers) =>
        IF Exact \in I64 THEN opRes.ok /\ opRes.v = Number(Exact)
        ELSE IF build = "debug"
        THEN /\ ~opRes.ok
             /\ opRes.err = (IF opArgs.op = "Addition" THEN "attempt to add with overflow"
                             ELSE "attempt to multiply with overflow")
        ELSE /\ opRes.ok /\ opRes.v.kind = "Number"
             /\ opRes.v.n \in I64
             /\ (opRes.v.n - Exact) % Modulus = 0

\* A sum above the range wrapped around to a negative Number.
C10_Witness ==
    /\ Applied("Addition") /\ BothNumbers /\ Exact > I64_MAX
    /\ build = "release" /\ opRes.ok /\ opRes.v.n < 0

\* ==================================================== properties: Lexer
\* The text a token was made from (a string literal without its quotes).
TokenText(token) ==
    CASE token.type = "Number" -> to_string(token.n)
      [] token.type \in {"String", "Identifier"} -> token.s
      [] token.type = "Plus" -> <<"+">>
      [] token.type = "Star" -> <<"*">>
      [] token.type = "Equals" -> <<"=">>
      [] token.type = "Let" -> W_let

RECURSIVE TokensText(_)
TokensText(tokens) ==
    IF tokens = <<>> THEN <<>> ELSE TokenText(Head(tokens)) \o TokensText(Tail(tokens))

\* The text of the source from position i on, left to right, without the
\* separating spaces and without the quotes around string literals.
RECURSIVE SourceText(_, _)
SourceText(source, i) ==
    IF i > Len(source) THEN <<>>
    ELSE IF source[i] = Quote
    THEN LET j == ClosingQuote(source, i + 1)
         IN  SubSeq(source, i + 1, j - 1) \o SourceText(source, j + 1)
    ELSE IF source[i] = " " THEN SourceText(source, i + 1)
    ELSE <<source[i]>> \o SourceText(source, i + 1)

Letters == {"a", "e", "l", "t", "x", "y"}
Recognized == {" ", "+", "*", "=", Quote} \cup DigitChars \cup Letters

\* Positions of the source outside string literals, from position i on.
RECURSIVE OutsideLiterals(_, _)
OutsideLiterals(source, i) ==
    IF i > Len(source) THEN {}
    ELSE IF source[i] = Quote THEN OutsideLiterals(source, ClosingQuote(source, i + 1) + 1)
    ELSE {i} \cup OutsideLiterals(source, i + 1)

\* Positions where the lexer meets a character of no recognized class.
Unrecognized(source) == {i \in OutsideLiterals(source, 1) : source[i] \notin Recognized}

\* The first call of tokens() has returned.
Lexed == lexOut # <<>>

\* C3: the tokens come out in the left-to-right order of their text in the
\* line, with or without spaces between them: the texts of the returned
\* tokens, one after the other, spell the line (stated for the lines that
\* hold characters of the recognized classes only).
C3_TokensInSourceOrder ==
    (Lexed /\ Unrecognized(lexer.source) = {})
        => TokensText(lexOut[1]) = SourceText(lexer.source, 1)

\* C4 (as claimed): no token list is returned for a line in which the lexer
\* meets a character of no recognized class.
C4_UnknownCharacterFails == Lexed => Unrecognized(lexer.source) = {}

\* C4 (amended): a character of no recognized class is no error: tokens()
\* returns a token list, in which the character is part of the text of an
\* Identifier token, or of a Number token (a "-" before digits).
C4_UnknownCharacterBuffered ==
    Lexed => \A i \in Unrecognized(lexer.source) :
                \E k \in 1..Len(lexOut[1]) :
                    /\ lexOut[1][k].type \in {"Identifier", "Number"}
                    /\ \E j \in 1..Len(TokenText(lexOut[1][k])) :
                          TokenText(lexOut[1][k])[j] = lexer.source[i]

\* "-1 @" was lexed to Number(-1), Identifier("@").
C4_Witness ==
    /\ Lexed
    /\ lexer.source = <<"-", "1", " ", "@">>
    /\ lexOut[1] = <<TokNumber(-1), TokIdentifier(<<"@">>)>>

\* =================================================== properties: parser
\* Statement::parse has been applied to the stream.
ParsedStream == parseOut # NotParsed

IsTermToken(token) == token.type \in {"Number", "String", "Identifier"}
IsOpToken(token) == token.type \in {"Plus", "Star"}

\* The stream opens with `let NAME =`.
HasLetPrefix(tokens) ==
    /\ Len(tokens) >= 3
    /\ tokens[1].type = "Let" /\ tokens[2].type = "Identifier" /\ tokens[3].type = "Equals"

\* The tokens of the expression: the stream, or what follows `let NAME =`.
ExprTokens(tokens) ==
    IF HasLetPrefix(tokens) THEN SubSeq(tokens, 4, Len(tokens)) ELSE tokens

\* The term a Number, String or Identifier token stands for.
TermOf(token) ==
    CASE token.type = "Number" -> TermValue(Number(token.n))
      [] token.type = "String" -> TermValue(String(token.s))
      [] token.type = "Identifier" -> TermVariable(token.s)

\* The expression starts with term, operator, term.
StartsBinary(tokens) ==
    /\ Len(tokens) >= 3
    /\ IsTermToken(tokens[1]) /\ IsOpToken(tokens[2]) /\ IsTermToken(tokens[3])

\* The Binary expression built from the first three tokens.
BinaryOf(tokens) ==
    ExprBinary(TermOf(tokens[1]),
               IF tokens[2].type = "Plus" THEN "Addition" ELSE "Multiplication",
               TermOf(tokens[3]))

\* C11: a token stream that starts with term, operator, term (after the
\* `let NAME =` of an assignment) parses to the Binary expression of exactly
\* those three tokens; the tokens after them are left in the stream,
\* unconsumed, and cause no error.
C11_TrailingTokensIgnored ==
    (ParsedStream /\ StartsBinary(ExprTokens(parseIn))) =>
        LET e == ExprTokens(parseIn) IN
        /\ parseOut.ok
        /\ parseOut.node = (IF HasLetPrefix(parseIn)
                            THEN StmtAssignment(parseIn[2].s, BinaryOf(e))
                            ELSE StmtExpression(BinaryOf(e)))
        /\ parseOut.rest = SubSeq(e, 4, Len(e))

\* `let x = 3 + 3 =` parsed to the assignment of 3 + 3, leaving the `=`.
C11_Witness ==
    /\ ParsedStream
    /\ parseIn = LetPrefix \o <<TokNumber(3), TokPlus, TokNumber(3), TokEquals>>
    /\ parseOut.ok /\ parseOut.rest = <<TokEquals>>
    /\ parseOut.node.kind = "Assignment" /\ parseOut.node.value.kind = "Binary"

\* ============================== properties: expression lines without operator
\* The step reads the line raw: it skips it, or lexes, parses and evaluates it.
Reads(raw) == SkipBlank(raw) \/ ParsePanics(raw) \/ EvaluatePanics(raw) \/ EvaluateLine(raw)

\* The lines of one term or of two terms in a row, with no other token.
NoOperatorLines ==
    {raw \in RunLines :
        LET tokens == LexedLines[raw] IN
        /\ Len(tokens) \in {1, 2}
        /\ \A k \in 1..Len(tokens) : IsTermToken(tokens[k])}

\* The Value of the term a token stands for: a literal itself, a variable
\* its binding.
TokenValue(token, sc) ==
    CASE token.type = "Number" -> Number(token.n)
      [] token.type = "String" -> String(token.s)
      [] token.type = "Identifier" -> sc[token.s]

IsUnbound(token, sc) == token.type = "Identifier" /\ token.s \notin DOMAIN sc

\* C12 (as claimed): a line of one term, or of two terms in a row, whose
\* variables are bound, runs without error and its result is the value of
\* the (first) term.
C12_NoOperatorLineSucceeds ==
    [][\A raw \in NoOperatorLines :
          LET tokens == LexedLines[raw] IN
          (Reads(raw) /\ \A k \in 1..Len(tokens) : ~IsUnbound(tokens[k], scope)) =>
              /\ pc' = "loop"
              /\ value' = Some(TokenValue(tokens[1], scope))]_vars

\* C12 (amended): a line of one term yields the value of the term,
\* unchanged: a literal itself, a bound variable its binding; an unbound
\* variable is a runtime error. A line of two terms in a row is a syntax
\* error ("expected operation") and yields nothing.
C12_LoneTermYieldsItself ==
    [][\A raw \in NoOperatorLines :
          Reads(raw) =>
              LET tokens == LexedLines[raw] IN
              IF Len(tokens) = 2
              THEN /\ pc' = "panicked" /\ error'.kind = "syntax"
                   /\ error'.msg = "syntax error, expected operation"
                   /\ error'.got = tokens[2].type
                   /\ value' = value /\ scope' = scope
              ELSE IF IsUnbound(tokens[1], scope)
              THEN /\ pc' = "panicked" /\ error'.kind = "runtime"
                   /\ error'.name = tokens[1].s
                   /\ value' = value /\ scope' = scope
              ELSE /\ pc' = "loop"
                   /\ value' = Some(TokenValue(tokens[1], scope))
                   /\ scope' = scope]_vars

\* After a line gave a value, a line of two terms in a row (`3 3`) ended the
\* run with a syntax error.
C12_Witness ==
    /\ pc = "panicked" /\ error.kind = "syntax"
    /\ error.msg = "syntax error, expected operation" /\ error.got = "Number"
    /\ value # None

\* ======================================== properties: repeated tokens()
\* C13: lexing is repeatable. Every call of tokens() leaves the Lexer with
\* an empty buffer and an empty token list, also when the line ends inside
\* a buffered word or an unterminated string literal, so every further call
\* on the same Lexer returns what the first call returned, which is what a
\* fresh Lexer over the same line returns.
C13_LexingRepeatable ==
    /\ Lexed => (lexer.buffer = <<>> /\ lexer.tokens = <<>>)
    /\ \A k \in 1..Len(lexOut) :
          /\ lexOut[k] = lexOut[1]
          /\ lexOut[k] = Lexer_tokens(Lexer_new(lexer.source)).ret

\* tokens() was called twice on the Lexer of `1"x`, a line that ends inside
\* a string literal with a word still buffered; both calls gave the same.
C13_Witness ==
    /\ Len(lexOut) = 2
    /\ lexer.source = <<"1", Quote, "x">>
    /\ lexOut[2] = <<TokString(<<"x">>), TokNumber(1)>>
    /\ lexOut[1] = lexOut[2]

\* ======================================= properties: syntax errors
\* A term is expected at position k of the tokens and the token there is
\* missing or is not a Number, String or Identifier.
BadTerm(tokens, k) == Len(tokens) < k \/ ~IsTermToken(tokens[k])

\* The first token is Let and the second is missing or not an Identifier.
BadName(tokens) ==
    tokens[1].type = "Let" /\ (Len(tokens) < 2 \/ tokens[2].type # "Identifier")

\* After `let NAME` the next token is missing or is not Equals.
BadEquals(tokens) ==
    /\ tokens[1].type = "Let" /\ Len(tokens) >= 2 /\ tokens[2].type = "Identifier"
    /\ (Len(tokens) < 3 \/ tokens[3].type # "Equals")

\* The expression of the statement is malformed: its first term is bad, or
\* a token follows the first term that is neither Plus nor Star, or the
\* operator is followed by a bad term.
BadExpression(tokens) ==
    \/ BadTerm(tokens, 1)
    \/ /\ ~BadTerm(tokens, 1) /\ Len(tokens) >= 2
       /\ (~IsOpToken(tokens[2]) \/ BadTerm(tokens, 3))

\* The cases in which the claim says Statement::parse fails.
SyntaxErrorCase(tokens) ==
    \/ BadName(tokens)
    \/ BadEquals(tokens)
    \/ /\ HasLetPrefix(tokens) /\ BadExpression(ExprTokens(tokens))
    \/ /\ tokens[1].type # "Let" /\ BadExpression(tokens)

\* C14: Statement::parse panics with a syntax error, and yields no
\* Statement, in exactly the listed cases; every other non-empty token
\* stream parses to one Statement (an Assignment after `let`, an Expression
\* otherwise).
C14_SyntaxErrorCases ==
    ParsedStream =>
        /\ parseOut.ok <=> ~SyntaxErrorCase(parseIn)
        /\ parseOut.ok =>
              parseOut.node.kind = (IF parseIn[1].type = "Let" THEN "Assignment"
                                    ELSE "Expression")
        /\ ~parseOut.ok => (parseOut.node = NoTerm /\ parseOut.err # "")

\* `x = 3` without `let` was rejected: the `=` stands where an operator must.
C14_Witness ==
    /\ ParsedStream
    /\ parseIn = <<TokIdentifier(W_x), TokEquals, TokNumber(3)>>
    /\ ~parseOut.ok
    /\ parseOut.err = "syntax error, expected operation" /\ parseOut.got = "Equals"

\* ============================================== properties: Scope frame
\* The names whose binding differs between two scopes.
ChangedNames(sc, after) ==
    {n \in (DOMAIN sc) \cup (DOMAIN after) : Scope_get(sc, n) # Scope_get(after, n)}

\* C15: the Scope starts empty and changes only in a step that evaluates an
\* Assignment successfully, and then in the binding of the assigned name
\* alone: an expression statement, a blank line, a syntax error and an
\* assignment whose right-hand side fails leave every binding as it was.
C15_ScopeChangesOnlyByAssignment ==
    /\ scope = Scope_new
    /\ [][ChangedNames(scope, scope') # {} =>
             /\ StepEvaluates
             /\ pc' = "loop"
             /\ statement'.kind = "Assignment"
             /\ ChangedNames(scope, scope') = {statement'.name}]_vars

\* `let x = ...` failed at run time while x was bound: x keeps the value
\* its last successful `let` gave it.
C15_Witness ==
    /\ pc = "panicked" /\ error.kind = "runtime"
    /\ statement.kind = "Assignment" /\ statement.name = W_x
    /\ W_x \in DOMAIN scope /\ Some(scope[W_x]) = written[W_x]

\* ===================================== properties: values held in the Scope
\* Every variable the expression mentions is bound in the scope.
BoundIn(expr, sc) ==
    /\ expr.left.kind = "Variable" => expr.left.name \in DOMAIN sc
    /\ (expr.kind = "Binary" /\ expr.right.kind = "Variable") => expr.right.name \in DOMAIN sc

\* The Value a term has under a given scope.
TermIn(term, sc) == IF term.kind = "Value" THEN term.value ELSE sc[term.name]

\* The Value an expression has when its names are looked up in a given scope.
ValueIn(expr, sc, bld) ==
    IF expr.kind = "Term" THEN TermIn(expr.left, sc)
    ELSE IF expr.op = "Addition" THEN Value_add(TermIn(expr.left, sc), TermIn(expr.right, sc), bld).v
    ELSE Value_mul(TermIn(expr.left, sc), TermIn(expr.right, sc), bld).v

\* C16: the Scope holds evaluated Numbers and Strings, fixed when assigned.
\* A successful `let NAME = EXPR` stores the Value EXPR has under the
\* bindings before the step (so `let x = x + 3` reads the old x) and leaves
\* every other stored Value as it was (so a reassignment of x does not
\* change a y computed from x); an expression statement yields the Value
\* its expression has under the bindings at the time of the step.
C16_ValuesFixedAtAssignment ==
    /\ scope = Scope_new
    /\ [][(StepEvaluates /\ pc' = "loop") =>
             /\ \A n \in DOMAIN scope' : scope'[n].kind \in {"Number", "String"}
             /\ BoundIn(statement'.value, scope)
             /\ IF statement'.kind = "Assignment"
                THEN /\ DOMAIN scope' = (DOMAIN scope) \cup {statement'.name}
                     /\ scope'[statement'.name] = ValueIn(statement'.value, scope, build)
                     /\ \A n \in (DOMAIN scope) \ {statement'.name} : scope'[n] = scope[n]
                ELSE /\ value' = Some(ValueIn(statement'.value, scope', build))
                     /\ scope' = scope]_vars

\* After `let y = x` with x = 3, x was reassigned to "a": y is still 3.
C16_Witness ==
    /\ pc = "loop"
    /\ statement = StmtAssignment(W_x, ExprTerm(TermValue(String(<<"a">>))))
    /\ DOMAIN scope = {W_x, W_y}
    /\ scope[W_x] = String(<<"a">>) /\ scope[W_y] = Number(3)

====
